---- MODULE Spec2Model ----
(***************************************************************************)
(* Model of the WEEKLYPLANNER backend (src/unnamed/part_000): the data     *)
(* normalizer (loadData), the credential verifier (verifyPassword), the    *)
(* session store (createSession / getSession), activity extraction and the *)
(* HTTP request handler.                                                   *)
(*                                                                         *)
(* JavaScript values are modelled as TLA+ strings; UNDEF stands for        *)
(* undefined (a missing column), NULL for null (an empty cell).  Digests   *)
(* are opaque symbols built from their inputs (an ideal, collision-free    *)
(* hash).  Session tokens are fresh names (crypto.randomBytes(32) never    *)
(* repeats a value).                                                       *)
(***************************************************************************)
EXTENDS Integers, Sequences, FiniteSets, TLC

VARIABLES
  phase,             \* bootstrap position: "boot", "listening", "missing", "failed"
  ALLOW_LEGACY_SHA,  \* process.env.ALLOW_LEGACY_SHA === 'true'
  now,               \* Date.now()
  ticks,             \* number of clock advances so far
  sessions,          \* the sessions Map: token -> session
  nextToken,         \* number of tokens drawn from crypto.randomBytes so far
  dataStore,         \* the active snapshot
  reqNo,             \* number of requests handled so far
  resp,              \* the last request and the response it got
  loggedOut,         \* history: tokens whose logout was answered 204
  load,              \* the last loadData call: what parseXlsx gave, whether it threw
  inflight,          \* the login request waiting at await parseJsonBody(req)
  input,             \* argument of the function under examination
  output             \* its result

vars == <<phase, ALLOW_LEGACY_SHA, now, ticks, sessions, nextToken, dataStore,
          reqNo, resp, loggedOut, load, inflight, input, output>>

serverVars == <<phase, ALLOW_LEGACY_SHA, now, ticks, sessions, nextToken,
                dataStore, reqNo, resp, loggedOut, load, inflight>>

-----------------------------------------------------------------------------
(* JavaScript values and strings *)

UNDEF == "<undefined>"
NULL  == "<null>"

\* JS truthiness of a string, undefined or null
Truthy(v) == v # UNDEF /\ v # NULL /\ v # ""

\* JS  a || b
JsOr(a, b) == IF Truthy(a) THEN a ELSE b

\* A row is a JavaScript object: a function from the column names the sheet has
\* to cell values.  row[name] of a column the row lacks is undefined.
Get(row, name) == IF name \in DOMAIN row THEN row[name] ELSE UNDEF

\* { ...row, [name]: value }
With(row, name, value) ==
  [c \in DOMAIN row \cup {name} |-> IF c = name THEN value ELSE row[c]]

\* delete row[name]
Without(row, name) == [c \in DOMAIN row \ {name} |-> row[c]]

RECURSIVE TrimLeft(_)
TrimLeft(s) ==
  IF Len(s) > 0 /\ SubSeq(s, 1, 1) = " " THEN TrimLeft(SubSeq(s, 2, Len(s))) ELSE s

RECURSIVE TrimRight(_)
TrimRight(s) ==
  IF Len(s) > 0 /\ SubSeq(s, Len(s), Len(s)) = " "
  THEN TrimRight(SubSeq(s, 1, Len(s) - 1)) ELSE s

\* String.prototype.trim
trim(s) == TrimRight(TrimLeft(s))

cleanValue(value) == IF value = UNDEF \/ value = NULL THEN "" ELSE trim(value)

UpperLetters == "ABCDEFGHIJKLMNOPQRSTUVWXYZ"
LowerLetters == "abcdefghijklmnopqrstuvwxyz"

\* the lower-case letter of each upper-case letter
LowerOf ==
  [c \in {SubSeq(UpperLetters, i, i) : i \in 1..26} |->
     LET i == CHOOSE k \in 1..26 : SubSeq(UpperLetters, k, k) = c
     IN  SubSeq(LowerLetters, i, i)]

LowerChar(c) == IF c \in DOMAIN LowerOf THEN LowerOf[c] ELSE c

RECURSIVE toLowerCase(_)
toLowerCase(s) ==
  IF Len(s) = 0 THEN s
  ELSE LowerChar(SubSeq(s, 1, 1)) \o toLowerCase(SubSeq(s, 2, Len(s)))

normalizeProgramName(name) == toLowerCase(cleanValue(name))

hasValue(value) == value # UNDEF /\ value # NULL /\ cleanValue(value) # ""

-----------------------------------------------------------------------------
(* Digests *)

\* crypto.scryptSync(code, salt, 64).toString('hex')
scryptHex(code, salt) == "scrypt:" \o salt \o ":" \o code

\* crypto.createHash('sha256').update(text).digest('hex')
sha256Hex(text) == "sha256:" \o text

hashWithSaltSHA256(code, salt) == sha256Hex(salt \o code)

HexDigits == "0123456789abcdefABCDEF"

HexDigitSet == {SubSeq(HexDigits, i, i) : i \in 1..Len(HexDigits)}

IsHexDigit(c) == c \in HexDigitSet

\* number of leading two-digit hex pairs of s
RECURSIVE HexPairs(_)
HexPairs(s) ==
  IF Len(s) >= 2 /\ IsHexDigit(SubSeq(s, 1, 1)) /\ IsHexDigit(SubSeq(s, 2, 2))
  THEN 1 + HexPairs(SubSeq(s, 3, Len(s)))
  ELSE 0

HasPrefix(s, p) == Len(s) >= Len(p) /\ SubSeq(s, 1, Len(p)) = p

\* Buffer.from(s, 'hex'): the bytes of the leading hex pairs of s.  A digest
\* symbol stands for its 64 (scrypt) or 32 (sha256) bytes.
BufferFromHex(s) ==
  IF HasPrefix(s, "scrypt:") THEN [length |-> 64, bytes |-> s]
  ELSE IF HasPrefix(s, "sha256:") THEN [length |-> 32, bytes |-> s]
  ELSE [length |-> HexPairs(s),
        bytes  |-> toLowerCase(SubSeq(s, 1, 2 * HexPairs(s)))]

\* crypto.timingSafeEqual(a, b): throws a RangeError when the lengths differ
timingSafeEqual(a, b) ==
  IF a.length # b.length THEN "throw"
  ELSE IF a.bytes = b.bytes THEN "accept" ELSE "reject"

-----------------------------------------------------------------------------
(* Credential verifier *)

\* verifyPassword with the two legacy branches tried before the strong one
verifyPassword_legacyFirst(row, code) ==
  LET scryptHash == cleanValue(JsOr(Get(row, "PasswordHash"), Get(row, "ScryptHash")))
      salt       == cleanValue(Get(row, "Salt"))
  IN  IF salt # "" /\ cleanValue(Get(row, "Code")) # ""
      THEN IF hashWithSaltSHA256(code, salt) = cleanValue(Get(row, "Code"))
           THEN "accept" ELSE "reject"
      ELSE IF cleanValue(Get(row, "Code")) # ""
      THEN IF sha256Hex(code) = cleanValue(Get(row, "Code")) THEN "accept" ELSE "reject"
      ELSE IF scryptHash # "" /\ salt # ""
      THEN timingSafeEqual(BufferFromHex(scryptHex(code, salt)),
                           BufferFromHex(scryptHash))
      ELSE "reject"

\* "accept" / "reject" for true / false, "throw" for an exception
verifyPassword(row, code) ==
  LET scryptHash == cleanValue(JsOr(Get(row, "PasswordHash"), Get(row, "ScryptHash")))
      salt       == cleanValue(Get(row, "Salt"))
  IN  IF scryptHash # "" /\ salt # ""
      THEN timingSafeEqual(BufferFromHex(scryptHex(code, salt)),
                           BufferFromHex(scryptHash))
      ELSE IF salt # "" /\ cleanValue(Get(row, "Code")) # ""
      THEN IF hashWithSaltSHA256(code, salt) = cleanValue(Get(row, "Code"))
           THEN "accept" ELSE "reject"
      ELSE IF ALLOW_LEGACY_SHA /\ cleanValue(Get(row, "Code")) # ""
      THEN IF sha256Hex(code) = cleanValue(Get(row, "Code")) THEN "accept" ELSE "reject"
      ELSE "reject"

-----------------------------------------------------------------------------
(* Instructor rows and activity extraction *)

\* the loop bound of extractActivities
NumGroups == 16

\* the value of each decimal digit
DigitValueOf ==
  [c \in {SubSeq(HexDigits, i, i) : i \in 1..10} |->
     (CHOOSE i \in 1..10 : SubSeq(HexDigits, i, i) = c) - 1]

IsDigit(c) == c \in DOMAIN DigitValueOf

RECURSIVE AllDigits(_)
AllDigits(s) ==
  Len(s) = 0 \/ (IsDigit(SubSeq(s, 1, 1)) /\ AllDigits(SubSeq(s, 2, Len(s))))

\* whether new Date(s) is a valid date, for the date cells of the model:
\* the ISO date-only form YYYY-MM-DD is valid, other text is an Invalid Date
IsValidDate(s) ==
  /\ s # UNDEF /\ s # NULL
  /\ Len(s) = 10
  /\ AllDigits(SubSeq(s, 1, 4)) /\ SubSeq(s, 5, 5) = "-"
  /\ AllDigits(SubSeq(s, 6, 7)) /\ SubSeq(s, 8, 8) = "-"
  /\ AllDigits(SubSeq(s, 9, 10))

\* new Date(s).toISOString(), for a valid date
toISOString(s) == s \o "T00:00:00.000Z"

\* row[`${col}${i}`] || (i === 1 ? row[col] : dflt)
GroupField(row, col, i, dflt) ==
  JsOr(Get(row, col \o ToString(i)), IF i = 1 THEN Get(row, col) ELSE dflt)

Activity(row, i) ==
  LET program == cleanValue(GroupField(row, "Program", i, ""))
  IN  [date          |-> toISOString(GroupField(row, "Date", i, UNDEF)),
       program       |-> program,
       programKey    |-> normalizeProgramName(program),
       startTime     |-> GroupField(row, "StartTime", i, ""),
       endTime       |-> GroupField(row, "EndTime", i, ""),
       manager       |-> cleanValue(GroupField(row, "Manager", i, "")),
       school        |-> cleanValue(GroupField(row, "School", i, "")),
       className     |-> cleanValue(GroupField(row, "Class", i, "")),
       authority     |-> cleanValue(GroupField(row, "Authority", i, "")),
       meetingNumber |-> i]

\* the loop of extractActivities from index i on, with the activities pushed
\* so far; toISOString of an Invalid Date throws a RangeError
RECURSIVE ExtractFrom(_, _, _)
ExtractFrom(row, i, activities) ==
  IF i > NumGroups THEN [threw |-> FALSE, activities |-> activities]
  ELSE LET dateField   == GroupField(row, "Date", i, UNDEF)
           cancelField == GroupField(row, "Cancel", i, UNDEF)
       IN  IF ~hasValue(dateField) THEN ExtractFrom(row, i + 1, activities)
           ELSE IF hasValue(cancelField) THEN ExtractFrom(row, i + 1, activities)
           ELSE IF ~IsValidDate(dateField) THEN [threw |-> TRUE, activities |-> <<>>]
           ELSE ExtractFrom(row, i + 1, Append(activities, Activity(row, i)))

extractActivities(row) == ExtractFrom(row, 1, <<>>)

-----------------------------------------------------------------------------
(* Number(value), for decimal literals *)

\* position of the first occurrence of character c in s, 0 when absent
RECURSIVE IndexOf(_, _)
IndexOf(s, c) ==
  IF Len(s) = 0 THEN 0
  ELSE IF SubSeq(s, 1, 1) = c THEN 1
  ELSE LET k == IndexOf(SubSeq(s, 2, Len(s)), c) IN IF k = 0 THEN 0 ELSE k + 1

DigitValue(c) == DigitValueOf[c]

RECURSIVE DecimalValue(_)
DecimalValue(s) ==
  IF Len(s) = 0 THEN 0
  ELSE 10 * DecimalValue(SubSeq(s, 1, Len(s) - 1)) + DigitValue(SubSeq(s, Len(s), Len(s)))

RECURSIVE StripZeros(_)
StripZeros(s) ==
  IF Len(s) > 0 /\ SubSeq(s, Len(s), Len(s)) = "0"
  THEN StripZeros(SubSeq(s, 1, Len(s) - 1)) ELSE s

NaN == [finite |-> FALSE, neg |-> FALSE, int |-> 0, frac |-> "", key |-> "NaN"]

\* the number with the given sign, integer part and fraction digits, and the
\* property key String(number) it is stored under
Finite(neg, int, frac) ==
  LET zero == int = 0 /\ frac = ""
  IN  [finite |-> TRUE, neg |-> neg /\ ~zero, int |-> int, frac |-> frac,
       key |-> (IF neg /\ ~zero THEN "-" ELSE "") \o ToString(int)
               \o (IF frac = "" THEN "" ELSE "." \o frac)]

\* Number(value): undefined is NaN, null and the empty string are 0, a decimal
\* literal (sign, digits, fraction) is its value, "Infinity" is not finite and
\* any other text is NaN
Number(value) ==
  IF value = UNDEF THEN NaN
  ELSE IF value = NULL THEN Finite(FALSE, 0, "")
  ELSE LET t    == trim(value)
           neg  == HasPrefix(t, "-")
           u    == IF neg \/ HasPrefix(t, "+") THEN SubSeq(t, 2, Len(t)) ELSE t
           dot  == IndexOf(u, ".")
           ip   == IF dot = 0 THEN u ELSE SubSeq(u, 1, dot - 1)
           fp   == IF dot = 0 THEN "" ELSE SubSeq(u, dot + 1, Len(u))
       IN  IF t = "" THEN Finite(FALSE, 0, "")
           ELSE IF u = "Infinity"
           THEN [finite |-> FALSE, neg |-> neg, int |-> 0, frac |-> "", key |-> t]
           ELSE IF Len(ip) + Len(fp) > 0 /\ AllDigits(ip) /\ AllDigits(fp)
           THEN Finite(neg, DecimalValue(ip), StripZeros(fp))
           ELSE NaN

-----------------------------------------------------------------------------
(* Data normalizer *)

\* the map callback that derives the salt and leaves the credentials alone
NormalizeInstructor_keepCode(row) ==
  LET employeeId   == cleanValue(Get(row, "EmployeeID"))
      salt         == JsOr(cleanValue(Get(row, "Salt")),
                           IF employeeId # "" THEN "emp-" \o employeeId
                           ELSE "default-salt")
      passwordHash == cleanValue(JsOr(Get(row, "PasswordHash"), Get(row, "ScryptHash")))
      normalized   == With(row, "Salt", salt)
  IN  IF passwordHash # "" THEN With(normalized, "PasswordHash", passwordHash)
      ELSE normalized

\* the map callback of loadData over the instructor rows
NormalizeInstructor(row) ==
  LET employeeId   == cleanValue(Get(row, "EmployeeID"))
      salt         == JsOr(cleanValue(Get(row, "Salt")),
                           IF employeeId # "" THEN "emp-" \o employeeId
                           ELSE "default-salt")
      passwordHash == cleanValue(JsOr(Get(row, "PasswordHash"), Get(row, "ScryptHash")))
      normalized   == With(row, "Salt", salt)
      codeValue    == cleanValue(Get(row, "Code"))
  IN  IF passwordHash # "" THEN With(normalized, "PasswordHash", passwordHash)
      ELSE IF codeValue # ""
      THEN Without(With(normalized, "PasswordHash", scryptHex(codeValue, salt)), "Code")
      ELSE normalized

\* row[j] of a JavaScript array (j counts from 0)
Cell(row, j) == IF j + 1 <= Len(row) THEN row[j + 1] ELSE UNDEF

\* the inner loop of loadData: the (type, text) pairs of a rule row from
\* column j on
RECURSIVE NotesFrom(_, _)
NotesFrom(row, j) ==
  IF ~(j + 1 < Len(row)) THEN <<>>
  ELSE LET type == cleanValue(Cell(row, j))
           text == cleanValue(Cell(row, j + 1))
       IN  (IF type # "" /\ text # "" THEN <<[type |-> type, text |-> text]>> ELSE <<>>)
           \o NotesFrom(row, j + 2)

\* lower-case property names every plain object inherits from Object.prototype:
\* programRules[k] is truthy for them although programRules has no such entry
InheritedKeys == {"constructor", "__proto__"}

\* programRules[programKey][meetingNum] = notes, after
\* if(!programRules[programKey]) programRules[programKey] = {}
\* An inherited key is found truthy, so no entry is created and the write goes
\* to the inherited object, not to programRules.
PutRule(programRules, programKey, meetingKey, notes) ==
  IF programKey \in DOMAIN programRules
  THEN [programRules EXCEPT ![programKey] =
          [k \in DOMAIN @ \cup {meetingKey} |-> IF k = meetingKey THEN notes ELSE @[k]]]
  ELSE IF programKey \in InheritedKeys THEN programRules
  ELSE [k \in DOMAIN programRules \cup {programKey} |->
          IF k = programKey THEN [m \in {meetingKey} |-> notes] ELSE programRules[k]]

\* the programRules loop of loadData from row i on (i counts from 0; row 0 is
\* the header)
RECURSIVE RulesFrom(_, _, _)
RulesFrom(programRows, i, programRules) ==
  IF ~(i < Len(programRows)) THEN programRules
  ELSE LET row        == programRows[i + 1]
           programKey == normalizeProgramName(Cell(row, 0))
           meetingNum == Number(Cell(row, 1))
       IN  IF programKey = "" \/ ~meetingNum.finite
           THEN RulesFrom(programRows, i + 1, programRules)
           ELSE RulesFrom(programRows, i + 1,
                          PutRule(programRules, programKey, meetingNum.key,
                                  NotesFrom(row, 2)))

EmptyObject == [k \in {} |-> <<>>]

BuildProgramRules(programRows) == RulesFrom(programRows, 1, EmptyObject)

RECURSIVE BuildGlobalMessages(_)
BuildGlobalMessages(globalRows) ==
  IF globalRows = <<>> THEN <<>>
  ELSE LET r == Head(globalRows)
       IN  (IF cleanValue(r.Message) # ""
            THEN <<[message |-> cleanValue(r.Message),
                    type    |-> JsOr(cleanValue(r.Type), "Info")]>>
            ELSE <<>>)
           \o BuildGlobalMessages(Tail(globalRows))

\* loadData that stores each table as soon as it is parsed
loadData_partial(store, parsed) ==
  LET s1 == IF parsed.instructor.ok
            THEN [store EXCEPT !.instructors =
                    [i \in 1..Len(parsed.instructor.rows) |->
                       NormalizeInstructor(parsed.instructor.rows[i])]]
            ELSE store
      s2 == IF parsed.instructor.ok /\ parsed.programRules.ok
            THEN [s1 EXCEPT !.programRules = BuildProgramRules(parsed.programRules.rows)]
            ELSE s1
      ok == parsed.instructor.ok /\ parsed.programRules.ok /\ parsed.globalMessages.ok
  IN  [threw |-> ~ok,
       dataStore |-> IF ok
                     THEN [s2 EXCEPT !.globalMessages =
                             BuildGlobalMessages(parsed.globalMessages.rows)]
                     ELSE s2]

\* loadData run on snapshot store; parsed gives, for each of the three files,
\* whether parseXlsx returned (ok) and the rows it returned.  The result is
\* whether loadData threw and the snapshot it leaves.
loadData(store, parsed) ==
  IF parsed.instructor.ok /\ parsed.programRules.ok /\ parsed.globalMessages.ok
  THEN [threw |-> FALSE,
        dataStore |->
          [instructors    |-> [i \in 1..Len(parsed.instructor.rows) |->
                                 NormalizeInstructor(parsed.instructor.rows[i])],
           programRules   |-> BuildProgramRules(parsed.programRules.rows),
           globalMessages |-> BuildGlobalMessages(parsed.globalMessages.rows)]]
  ELSE [threw |-> TRUE, dataStore |-> store]

-----------------------------------------------------------------------------
(* Session store *)

SESSION_TTL_MS == 1000 * 60 * 60 * 8

\* crypto.randomBytes(32).toString('hex'): the n-th token drawn
Token(n) == "tok" \o ToString(n)

\* sessions.delete(token)
Delete(store, token) == [t \in DOMAIN store \ {token} |-> store[t]]

\* createSession that ends the employee's earlier sessions
createSession_single(employeeId, employeeName) ==
  LET token == Token(nextToken + 1)
      kept  == {t \in DOMAIN sessions : sessions[t].employeeId # employeeId}
  IN  [token    |-> token,
       sessions |-> [t \in kept \cup {token} |->
                       IF t = token
                       THEN [employeeId   |-> employeeId,
                             employeeName |-> employeeName,
                             expiresAt    |-> now + SESSION_TTL_MS]
                       ELSE sessions[t]]]

\* createSession: the token it returns and the store it leaves
createSession(employeeId, employeeName) ==
  LET token == Token(nextToken + 1)
  IN  [token    |-> token,
       sessions |-> [t \in DOMAIN sessions \cup {token} |->
                       IF t = token
                       THEN [employeeId   |-> employeeId,
                             employeeName |-> employeeName,
                             expiresAt    |-> now + SESSION_TTL_MS]
                       ELSE sessions[t]]]

NoSession == [employeeId |-> "", employeeName |-> "", expiresAt |-> 0]

\* getSession that also refuses a session at the instant it expires
getSession_atOrAfter(req) ==
  LET auth  == JsOr(req.authorization, "")
      token == IF HasPrefix(auth, "Bearer ") THEN SubSeq(auth, 8, Len(auth)) ELSE ""
  IN  IF token \notin DOMAIN sessions
      THEN [found |-> FALSE, token |-> token, session |-> NoSession,
            sessions |-> sessions]
      ELSE IF sessions[token].expiresAt <= now
      THEN [found |-> FALSE, token |-> token, session |-> NoSession,
            sessions |-> Delete(sessions, token)]
      ELSE [found |-> TRUE, token |-> token, session |-> sessions[token],
            sessions |-> sessions]

\* getSession that renews the session it returns (sliding expiry)
getSession_renew(req) ==
  LET auth  == JsOr(req.authorization, "")
      token == IF HasPrefix(auth, "Bearer ") THEN SubSeq(auth, 8, Len(auth)) ELSE ""
  IN  IF token \notin DOMAIN sessions
      THEN [found |-> FALSE, token |-> token, session |-> NoSession,
            sessions |-> sessions]
      ELSE IF sessions[token].expiresAt < now
      THEN [found |-> FALSE, token |-> token, session |-> NoSession,
            sessions |-> Delete(sessions, token)]
      ELSE [found |-> TRUE, token |-> token, session |-> sessions[token],
            sessions |-> [sessions EXCEPT ![token].expiresAt = now + SESSION_TTL_MS]]

\* getSession: whether a session is returned, the token read from the
\* Authorization header, the session, and the store it leaves
getSession(req) ==
  LET auth  == JsOr(req.authorization, "")
      token == IF HasPrefix(auth, "Bearer ") THEN SubSeq(auth, 8, Len(auth)) ELSE ""
  IN  IF token \notin DOMAIN sessions
      THEN [found |-> FALSE, token |-> token, session |-> NoSession,
            sessions |-> sessions]
      ELSE IF sessions[token].expiresAt < now
      THEN [found |-> FALSE, token |-> token, session |-> NoSession,
            sessions |-> Delete(sessions, token)]
      ELSE [found |-> TRUE, token |-> token, session |-> sessions[token],
            sessions |-> sessions]

-----------------------------------------------------------------------------
(* Request handler *)

\* dataStore.instructors.find(item => cleanValue(item.EmployeeID) === employeeId):
\* the index of the first such row, 0 when there is none
FindRow(instructors, employeeId) ==
  LET hits == {i \in 1..Len(instructors) :
                 cleanValue(Get(instructors[i], "EmployeeID")) = employeeId}
  IN  IF hits = {} THEN 0 ELSE CHOOSE i \in hits : \A k \in hits : i <= k

ForbiddenPaths == {"/InstructorData.xlsx", "/ProgramRules.xlsx", "/GlobalMessages.xlsx"}

\* the guard that leaves one of the three files out
IsForbidden_two(url) == url \in {"/InstructorData.xlsx", "/ProgramRules.xlsx"}

IsForbidden(url) == url \in ForbiddenPaths

\* the routes table: path -> file served
routes ==
  [p \in {"/", "/sw.js", "/manifest.json", "/hash-generator.html", "/logo.png",
          "/icon-192.png", "/icon-512.png"} |->
     IF p = "/" THEN "index.html" ELSE SubSeq(p, 2, Len(p))]

NoPayload ==
  [error |-> "", text |-> "", token |-> "", employeeName |-> "",
   activities |-> <<>>, programRules |-> EmptyObject, globalMessages |-> <<>>]

\* what a handler leaves: the response and the session store
Result(status, payload, store, issued) ==
  [status |-> status, payload |-> payload, sessions |-> store, issued |-> issued]

sendJsonError(status, error, store) ==
  Result(status, [NoPayload EXCEPT !.error = error], store, 0)

sendText(status, text, store) ==
  Result(status, [NoPayload EXCEPT !.text = text], store, 0)

\* POST /api/login
Login(req) ==
  IF req.body.kind \in {"invalid", "null"}
  THEN sendJsonError(500, "Server error", sessions)
  ELSE LET employeeId == cleanValue(req.body.employeeId)
           code       == cleanValue(req.body.code)
           k          == FindRow(dataStore.instructors, employeeId)
           row        == dataStore.instructors[k]
           verdict    == verifyPassword(row, code)
           created    == createSession(employeeId, cleanValue(Get(row, "Employee")))
       IN  IF employeeId = "" \/ code = ""
           THEN sendJsonError(400, "Missing credentials", sessions)
           ELSE IF k = 0 THEN sendJsonError(401, "Invalid credentials", sessions)
           ELSE IF verdict = "throw" THEN sendJsonError(500, "Server error", sessions)
           ELSE IF verdict = "reject"
           THEN sendJsonError(401, "Invalid credentials", sessions)
           ELSE Result(200,
                       [NoPayload EXCEPT !.token = created.token,
                                         !.employeeName = cleanValue(Get(row, "Employee"))],
                       created.sessions, 1)

\* the schedule handler that drops the session when extraction throws
Schedule_dropOnThrow(req) ==
  LET got        == getSession(req)
      k          == FindRow(dataStore.instructors, got.session.employeeId)
      row        == dataStore.instructors[k]
      extracted  == extractActivities(row)
  IN  IF ~got.found THEN sendJsonError(401, "Unauthorized", got.sessions)
      ELSE IF k = 0 THEN sendJsonError(404, "Employee not found", got.sessions)
      ELSE IF extracted.threw
      THEN sendJsonError(500, "Server error", Delete(got.sessions, got.token))
      ELSE Result(200,
                  [NoPayload EXCEPT !.employeeName = cleanValue(Get(row, "Employee")),
                                    !.activities = extracted.activities,
                                    !.programRules = dataStore.programRules,
                                    !.globalMessages = dataStore.globalMessages],
                  got.sessions, 0)

\* GET /api/me/schedule
Schedule(req) ==
  LET got        == getSession(req)
      k          == FindRow(dataStore.instructors, got.session.employeeId)
      row        == dataStore.instructors[k]
      extracted  == extractActivities(row)
  IN  IF ~got.found THEN sendJsonError(401, "Unauthorized", got.sessions)
      ELSE IF k = 0 THEN sendJsonError(404, "Employee not found", got.sessions)
      ELSE IF extracted.threw THEN sendJsonError(500, "Server error", got.sessions)
      ELSE Result(200,
                  [NoPayload EXCEPT !.employeeName = cleanValue(Get(row, "Employee")),
                                    !.activities = extracted.activities,
                                    !.programRules = dataStore.programRules,
                                    !.globalMessages = dataStore.globalMessages],
                  got.sessions, 0)

\* POST /api/logout that answers 204 and keeps the session
Logout_keep(req) ==
  LET got == getSession(req)
  IN  IF ~got.found THEN sendJsonError(401, "Unauthorized", got.sessions)
      ELSE Result(204, NoPayload, got.sessions, 0)

\* POST /api/logout
Logout(req) ==
  LET got == getSession(req)
  IN  IF ~got.found THEN sendJsonError(401, "Unauthorized", got.sessions)
      ELSE Result(204, NoPayload, Delete(got.sessions, got.token), 0)

\* serveFile
serveFile(file, exists) ==
  IF ~exists THEN sendText(404, "Not found", sessions)
  ELSE Result(200, [NoPayload EXCEPT !.text = "file:" \o file], sessions, 0)

\* the body of the server's request callback
Handle(req) ==
  IF IsForbidden(req.url)
  THEN sendText(403, "Direct access to Excel files is forbidden.", sessions)
  ELSE IF req.method = "POST" /\ req.url = "/api/login" THEN Login(req)
  ELSE IF req.method = "GET" /\ req.url = "/api/me/schedule" THEN Schedule(req)
  ELSE IF req.method = "POST" /\ req.url = "/api/logout" THEN Logout(req)
  ELSE IF req.url \in DOMAIN routes THEN serveFile(routes[req.url], req.fileExists)
  ELSE sendText(404, "Not found", sessions)

-----------------------------------------------------------------------------
(* Bounds and the inputs the environment supplies *)

MaxTicks    == 3   \* clock advances
MaxTokens   == 2   \* sessions created
MaxRequests == 4   \* requests handled (login, schedule, logout)
MaxHttpRequests == 2   \* requests handled (requests of every kind)

\* the sheets parseXlsx may return
RowDana ==
  [EmployeeID |-> " 1001 ", Employee |-> "Dana ", Salt |-> " s1",
   PasswordHash |-> scryptHex("abc123", "s1"),
   Date1 |-> "2026-03-01", Program1 |-> " Robotics ",
   Date2 |-> "2026-03-08", Cancel2 |-> "yes",
   Date4 |-> "2026-03-22"]

RowEli ==
  [EmployeeID |-> "1002", Employee |-> "Eli", Code |-> "pw2",
   Date |-> "2026-03-02", Program |-> "Chess"]

\* a row whose PasswordHash column holds a SHA-256 digest (32 bytes)
RowShaInHash ==
  [EmployeeID |-> "1003", Employee |-> "Noa", Salt |-> "s3",
   PasswordHash |-> sha256Hex("s3pw2")]

\* a row whose second date cell is not a date
RowTextDate ==
  [EmployeeID |-> "1004", Employee |-> "Tal", Code |-> "pw2",
   Date1 |-> "2026-03-03", Date2 |-> "TBD"]

SheetA == [instructor |-> <<RowDana, RowEli>>,
           programRules |->
             << <<"Program", "Meeting", "Type", "Text">>,
                <<" Robotics ", "1", "Tip", "Bring kits">>,
                <<"robotics", "2", "Tip", " ", "Note", "Lab 2">> >>,
           globalMessages |->
             << [Message |-> " Welcome ", Type |-> NULL],
                [Message |-> " ", Type |-> "Warn"] >>]

SheetB == [instructor |-> <<RowEli, RowShaInHash, RowTextDate>>,
           programRules |->
             << <<"Program", "Meeting", "Type", "Text">>,
                <<"Robotics", "abc", "Tip", "unused">>,
                <<"Chess", " 1 ", "Tip", "Boards">> >>,
           globalMessages |-> << [Message |-> "Closed Friday", Type |-> "Alert"] >>]

Returned(rows) == [ok |-> TRUE, rows |-> rows]
Thrown == [ok |-> FALSE, rows |-> <<>>]

AllReturned(sheet) ==
  [instructor |-> Returned(sheet.instructor),
   programRules |-> Returned(sheet.programRules),
   globalMessages |-> Returned(sheet.globalMessages)]

\* what the three parseXlsx calls of one loadData may do: all return, or one
\* of them throws
ParsedFiles ==
  [n \in {"A", "B", "B-instructor", "B-programRules", "B-globalMessages"} |->
     IF n = "A" THEN AllReturned(SheetA)
     ELSE IF n = "B" THEN AllReturned(SheetB)
     ELSE IF n = "B-instructor" THEN [AllReturned(SheetB) EXCEPT !.instructor = Thrown]
     ELSE IF n = "B-programRules" THEN [AllReturned(SheetB) EXCEPT !.programRules = Thrown]
     ELSE [AllReturned(SheetB) EXCEPT !.globalMessages = Thrown]]

NoBody == [kind |-> "empty", employeeId |-> UNDEF, code |-> UNDEF]

JsonObject(employeeId, code) ==
  [kind |-> "object", employeeId |-> employeeId, code |-> code]

\* request bodies: a JSON object, the JSON text null, text that is not JSON,
\* and no body at all
LoginBodies ==
  {JsonObject(" 1001", "abc123"), JsonObject("1001", "wrong"),
   JsonObject("1002", " pw2 "), JsonObject("1003", "pw2"),
   JsonObject("1004", "pw2"), JsonObject("9999", "abc123"),
   JsonObject(UNDEF, "abc123"), JsonObject("1002", " "),
   [NoBody EXCEPT !.kind = "null"], [NoBody EXCEPT !.kind = "invalid"], NoBody}

AuthHeaders ==
  {UNDEF, Token(1)} \cup {"Bearer " \o Token(n) : n \in 1..MaxTokens}

Req(method, url, authorization, fileExists) ==
  [method |-> method, url |-> url, authorization |-> authorization,
   body |-> NoBody, fileExists |-> fileExists]

\* login, schedule and logout requests
SessionRequests ==
  {[method |-> "POST", url |-> "/api/login", authorization |-> UNDEF,
    body |-> b, fileExists |-> FALSE] :
     b \in {JsonObject(" 1001", "abc123"), JsonObject("1001", "wrong"),
            JsonObject("1004", "pw2")}}
  \cup {Req("GET", "/api/me/schedule", a, FALSE) : a \in AuthHeaders \ {UNDEF}}
  \cup {Req("POST", "/api/logout", a, FALSE) : a \in AuthHeaders \ {UNDEF}}

Requests ==
  {[method |-> "POST", url |-> "/api/login", authorization |-> UNDEF,
    body |-> b, fileExists |-> FALSE] : b \in LoginBodies}
  \cup {Req("GET", "/api/me/schedule", a, FALSE) : a \in AuthHeaders}
  \cup {Req("POST", "/api/logout", a, FALSE) : a \in AuthHeaders}
  \cup {Req("GET", u, UNDEF, FALSE) : u \in ForbiddenPaths}
  \cup {Req("POST", u, "Bearer " \o Token(1), TRUE) : u \in ForbiddenPaths}
  \cup {Req("GET", "/", UNDEF, TRUE), Req("GET", "/logo.png", UNDEF, FALSE),
        Req("POST", "/", UNDEF, TRUE), Req("GET", "/nope", UNDEF, FALSE),
        Req("GET", "/api/login", UNDEF, FALSE),
        Req("POST", "/api/me/schedule", "Bearer " \o Token(1), FALSE),
        Req("GET", "/api/logout", "Bearer " \o Token(1), FALSE)}

-----------------------------------------------------------------------------
(* The server *)

EmptyStore == [instructors |-> <<>>, programRules |-> EmptyObject, globalMessages |-> <<>>]

NoRequest ==
  [method |-> "", url |-> "", authorization |-> UNDEF, body |-> NoBody,
   fileExists |-> FALSE]

NoLoad == [files |-> "", threw |-> FALSE]

\* no request is waiting for its body
NoInflight ==
  [stage |-> "idle", req |-> NoRequest, size |-> 0, data |-> 0, sent |-> 0,
   seen |-> EmptyStore]

Init ==
  /\ phase = "boot"
  /\ ALLOW_LEGACY_SHA \in BOOLEAN
  /\ now = 0
  /\ ticks = 0
  /\ sessions = EmptyObject
  /\ nextToken = 0
  /\ dataStore = EmptyStore
  /\ reqNo = 0
  /\ resp = [req |-> NoRequest, status |-> 0, payload |-> NoPayload]
  /\ loggedOut = {}
  /\ load = NoLoad
  /\ inflight = NoInflight
  /\ input = ""
  /\ output = ""

\* the three data files
DATA_FILES == {"InstructorData.xlsx", "ProgramRules.xlsx", "GlobalMessages.xlsx"}

\* ensureDataFiles: fsp.access of each file in turn; TRUE when none rejects
ensureDataFiles(onDisk) == \A file \in DATA_FILES : file \in onDisk

\* bootstrap that arms the timer and listens whatever the initial load did
Bootstrap_listenAnyway ==
  /\ phase = "boot"
  /\ \E onDisk \in SUBSET DATA_FILES, n \in DOMAIN ParsedFiles :
       \E r \in {loadData(dataStore, ParsedFiles[n])} :
           IF ~ensureDataFiles(onDisk)
           THEN /\ phase' = "missing"
                /\ UNCHANGED <<dataStore, load>>
           ELSE /\ phase' = "listening"
                /\ dataStore' = r.dataStore
                /\ load' = [files |-> n, threw |-> r.threw]
  /\ UNCHANGED <<ALLOW_LEGACY_SHA, now, ticks, sessions, nextToken, reqNo, resp,
                 loggedOut, inflight, input, output>>

\* bootstrap: ensureDataFiles, the initial loadData, then setInterval and
\* listen; a rejection of either await ends the function before both
Bootstrap ==
  /\ phase = "boot"
  /\ \E onDisk \in SUBSET DATA_FILES, n \in DOMAIN ParsedFiles :
       \E r \in {loadData(dataStore, ParsedFiles[n])} :
           IF ~ensureDataFiles(onDisk)
           THEN /\ phase' = "missing"
                /\ UNCHANGED <<dataStore, load>>
           ELSE /\ phase' = IF r.threw THEN "failed" ELSE "listening"
                /\ dataStore' = r.dataStore
                /\ load' = [files |-> n, threw |-> r.threw]
  /\ UNCHANGED <<ALLOW_LEGACY_SHA, now, ticks, sessions, nextToken, reqNo, resp,
                 loggedOut, inflight, input, output>>

\* the setInterval callback: loadData().catch(() => {})
Reload ==
  /\ phase = "listening"
  /\ \E n \in DOMAIN ParsedFiles :
       \E r \in {loadData(dataStore, ParsedFiles[n])} :
           /\ dataStore' = r.dataStore
           /\ load' = [files |-> n, threw |-> r.threw]
  /\ UNCHANGED <<phase, ALLOW_LEGACY_SHA, now, ticks, sessions, nextToken, reqNo,
                 resp, loggedOut, inflight, input, output>>

\* The instants at which the clock is read: a session created at the start is
\* looked at one millisecond before its expiry, at its expiry, and after it.
ClockStep(k) == IF k = 1 THEN SESSION_TTL_MS - 1 ELSE 1

\* the wall clock advances
Tick ==
  /\ phase = "listening"
  /\ ticks < MaxTicks
  /\ now' = now + ClockStep(ticks + 1)
  /\ ticks' = ticks + 1
  /\ UNCHANGED <<phase, ALLOW_LEGACY_SHA, sessions, nextToken, dataStore, reqNo,
                 resp, loggedOut, load, inflight,
                 input, output>>

\* one request out of the set reqs, handled to its response, while fewer than
\* max requests were handled
RequestFrom(reqs, max) ==
  /\ phase = "listening"
  /\ reqNo < max
  /\ \E req \in reqs :
       \E r \in {Handle(req)} :
           /\ nextToken + r.issued <= MaxTokens
           /\ sessions' = r.sessions
           /\ nextToken' = nextToken + r.issued
           /\ resp' = [req |-> req, status |-> r.status, payload |-> r.payload]
           /\ loggedOut' = IF req.method = "POST" /\ req.url = "/api/logout"
                              /\ r.status = 204
                           THEN loggedOut \cup {getSession(req).token}
                           ELSE loggedOut
  /\ reqNo' = reqNo + 1
  /\ UNCHANGED <<phase, ALLOW_LEGACY_SHA, now, ticks, dataStore, load, inflight,
                 input, output>>

\* the server under login, schedule and logout requests
Request == RequestFrom(SessionRequests, MaxRequests)

Next == Bootstrap \/ Reload \/ Tick \/ Request

\* the server in its default configuration (ALLOW_LEGACY_SHA unset)
InitDefault == Init /\ ALLOW_LEGACY_SHA = FALSE

Spec == InitDefault /\ [][Next]_vars

\* the server under requests of every kind
HttpRequest == RequestFrom(Requests, MaxHttpRequests)

NextHttp == Bootstrap \/ Reload \/ Tick \/ HttpRequest

SpecHttp == Init /\ [][NextHttp]_vars

-----------------------------------------------------------------------------
(* Properties of the session store and of the authenticated endpoints *)

\* the step handles a request
RequestStep == reqNo' # reqNo

IsScheduleRequest(req) == req.method = "GET" /\ req.url = "/api/me/schedule"
IsLogoutRequest(req)   == req.method = "POST" /\ req.url = "/api/logout"

\* the request resolves token t through getSession
Presents(req, t) ==
  /\ IsScheduleRequest(req) \/ IsLogoutRequest(req)
  /\ req.authorization = "Bearer " \o t

\* C1: a request that resolves the token of a stored session gets the session
\* at every instant strictly before expiresAt, and gets none (401, and the
\* entry is deleted) at every instant from expiresAt on, the instant
\* now = expiresAt included.
C1_ResolveUntilExpiry ==
  [][\A t \in DOMAIN sessions :
       (RequestStep /\ Presents(resp'.req, t))
       => IF now < sessions[t].expiresAt
          THEN resp'.status # 401
          ELSE resp'.status = 401 /\ t \notin DOMAIN sessions']_vars

\* C2: once a logout with token t was answered 204, every later schedule or
\* logout request carrying t is answered 401.
C2_LoggedOutStays401 ==
  [][\A t \in loggedOut :
       (RequestStep /\ Presents(resp'.req, t)) => resp'.status = 401]_vars

\* a logged-out token was presented again while another session is live
C2_Witness ==
  /\ \E t \in loggedOut : Presents(resp.req, t) /\ IsScheduleRequest(resp.req)
  /\ resp.status = 401
  /\ DOMAIN sessions # {}

\* C10: a session's expiresAt is creation time + 8 hours and no step changes
\* the expiresAt of a session that stays in the store.
C10_ExpiryFixed ==
  [][/\ \A t \in DOMAIN sessions \cap DOMAIN sessions' :
          sessions'[t].expiresAt = sessions[t].expiresAt
     /\ \A t \in DOMAIN sessions' \ DOMAIN sessions :
          sessions'[t].expiresAt = now + SESSION_TTL_MS]_vars

\* a session created at the start served a schedule request later on, and its
\* expiry is still the one set at creation
C10_Witness ==
  /\ now > 0
  /\ resp.status = 200 /\ IsScheduleRequest(resp.req)
  /\ \E t \in DOMAIN sessions :
       Presents(resp.req, t) /\ sessions[t].expiresAt = SESSION_TTL_MS

\* C4: a schedule request is answered 401 when getSession finds no live
\* session, 404 when the session's employee id matches no record of the
\* current snapshot, and 200 otherwise, with the activities of that record.
C4_ScheduleStatus ==
  [][(RequestStep /\ IsScheduleRequest(resp'.req))
     => LET got == getSession(resp'.req)
            ids == {cleanValue(Get(dataStore.instructors[i], "EmployeeID")) :
                      i \in 1..Len(dataStore.instructors)}
        IN  IF ~got.found THEN resp'.status = 401
            ELSE IF got.session.employeeId \notin ids THEN resp'.status = 404
            ELSE /\ resp'.status = 200
                 /\ resp'.payload.activities =
                      extractActivities(
                        dataStore.instructors[
                          FindRow(dataStore.instructors, got.session.employeeId)]
                      ).activities]_vars

\* what loadData makes of each outcome of the three parses, starting from
\* the empty snapshot
LoadedAlone ==
  [n \in DOMAIN ParsedFiles |-> loadData(EmptyStore, ParsedFiles[n])]

\* C5: a reload replaces the snapshot only when all three parses succeeded,
\* and then with a snapshot built from the three new tables alone; when a
\* parse fails the snapshot is unchanged and the server keeps listening.
C5_ReloadAllOrNothing ==
  [][(phase = "listening" /\ reqNo' = reqNo /\ ticks' = ticks)
     => LET parsed == ParsedFiles[load'.files]
        IN  IF parsed.instructor.ok /\ parsed.programRules.ok /\ parsed.globalMessages.ok
            THEN /\ ~load'.threw
                 /\ Len(dataStore'.instructors) = Len(parsed.instructor.rows)
                 /\ dataStore' = LoadedAlone[load'.files].dataStore
            ELSE /\ load'.threw
                 /\ dataStore' = dataStore
                 /\ phase' = "listening"]_vars

\* the timer's reload failed on its third file only, and the snapshot loaded
\* from the other sheet is still the active one
C5_Witness ==
  /\ phase = "listening"
  /\ load = [files |-> "B-globalMessages", threw |-> TRUE]
  /\ dataStore = loadData(EmptyStore, ParsedFiles["A"]).dataStore

-----------------------------------------------------------------------------
(* Properties of the HTTP surface *)

IsLoginRequest(req) == req.method = "POST" /\ req.url = "/api/login"

\* C3: a login whose body is parseable JSON is answered 400 when employeeId or
\* code is empty after trimming, else 401 when no record has that id or the
\* record's credential does not match the code, else 200 with a token and the
\* employee name; no other status is produced.
C3_LoginStatus ==
  [][(RequestStep /\ IsLoginRequest(resp'.req) /\ resp'.req.body.kind \in {"object", "null"})
     => LET body       == resp'.req.body
            employeeId == cleanValue(body.employeeId)
            code       == cleanValue(body.code)
            k          == FindRow(dataStore.instructors, employeeId)
        IN  IF employeeId = "" \/ code = "" THEN resp'.status = 400
            ELSE IF k = 0 \/ verifyPassword(dataStore.instructors[k], code) # "accept"
            THEN resp'.status = 401 /\ resp'.payload.error = "Invalid credentials"
            ELSE /\ resp'.status = 200
                 /\ resp'.payload.token \in DOMAIN sessions' \ DOMAIN sessions
                 /\ resp'.payload.employeeName =
                      cleanValue(Get(dataStore.instructors[k], "Employee"))]_vars

\* C6: a request for one of the three spreadsheet paths is answered 403 with
\* the refusal text, never with a file.
C6_XlsxForbidden ==
  resp.req.url \in ForbiddenPaths
  => resp.status = 403 /\ resp.payload.text = "Direct access to Excel files is forbidden."

\* a spreadsheet was requested with the token of a live session while the file
\* is on disk, after the data had been loaded
C6_Witness ==
  /\ resp.req.url = "/GlobalMessages.xlsx"
  /\ resp.req.fileExists
  /\ \E t \in DOMAIN sessions : resp.req.authorization = "Bearer " \o t
  /\ resp.status = 403

-----------------------------------------------------------------------------
(* The credential verifier on its own *)

Pending == [done |-> FALSE]

\* the vars of the server, at rest
ServerIdle ==
  /\ phase = "boot"
  /\ now = 0
  /\ ticks = 0
  /\ sessions = EmptyObject
  /\ nextToken = 0
  /\ dataStore = EmptyStore
  /\ reqNo = 0
  /\ resp = [req |-> NoRequest, status |-> 0, payload |-> NoPayload]
  /\ loggedOut = {}
  /\ load = NoLoad
  /\ inflight = NoInflight

\* records with every combination of credential columns: missing, blank,
\* a matching value, a value that does not match, a digest of the wrong length
VerifyRows ==
  {[PasswordHash |-> ph, ScryptHash |-> sh, Salt |-> salt, Code |-> legacy] :
     ph \in {UNDEF, " ", scryptHex("abc123", "s1"), scryptHex("other", "s1"),
             sha256Hex("s1abc123")},
     sh \in {UNDEF, scryptHex("abc123", "s1")},
     salt \in {UNDEF, " ", " s1 "},
     legacy \in {UNDEF, " ", sha256Hex("s1abc123"), sha256Hex("abc123")}}

InitVerify ==
  /\ ServerIdle
  /\ ALLOW_LEGACY_SHA \in BOOLEAN
  /\ input \in [row : VerifyRows, code : {"abc123", "wrong"}]
  /\ output = Pending

Verify ==
  /\ ~output.done
  /\ output' = [done |-> TRUE, value |-> verifyPassword(input.row, input.code)]
  /\ UNCHANGED <<serverVars, input>>

SpecVerify == InitVerify /\ [][Verify]_vars

\* C7: verifyPassword accepts exactly when the first applicable step of the
\* policy accepts: (1) strong hash and salt present: the strong hash of the
\* code with the salt is the stored hash; (2) else salt and legacy value
\* present: fastHash(salt + code) is the legacy value; (3) else flag on and
\* legacy value present: fastHash(code) is the legacy value; (4) else never.
\* Outside step (1) it returns without throwing, and a record with neither a
\* strong hash nor a legacy value is rejected.
C7_VerifyPolicy ==
  output.done =>
    LET row    == input.row
        code   == input.code
        strong == cleanValue(JsOr(Get(row, "PasswordHash"), Get(row, "ScryptHash")))
        salt   == cleanValue(Get(row, "Salt"))
        legacy == cleanValue(Get(row, "Code"))
        policy == IF strong # "" /\ salt # "" THEN strong = scryptHex(code, salt)
                  ELSE IF salt # "" /\ legacy # "" THEN legacy = sha256Hex(salt \o code)
                  ELSE IF ALLOW_LEGACY_SHA /\ legacy # "" THEN legacy = sha256Hex(code)
                  ELSE FALSE
    IN  /\ (output.value = "accept") <=> policy
        /\ ~(strong # "" /\ salt # "") => output.value \in {"accept", "reject"}
        /\ (strong = "" /\ legacy = "") => output.value = "reject"

\* a record with a strong hash that does not match and a salted legacy value
\* that would match was rejected
C7_Witness ==
  /\ output.done /\ output.value = "reject"
  /\ cleanValue(Get(input.row, "PasswordHash")) = scryptHex("other", "s1")
  /\ cleanValue(Get(input.row, "Code")) =
       sha256Hex(cleanValue(Get(input.row, "Salt")) \o input.code)

-----------------------------------------------------------------------------
(* Activity extraction on its own *)

DateCells   == {UNDEF, " ", "2026-03-01", "TBD"}
CancelCells == {UNDEF, " ", "x"}

\* two further field groups besides group 1 and the unsuffixed columns
GroupPairs == {<<2, 3>>, <<2, 16>>, <<7, 9>>, <<15, 16>>}

LaterCells ==
  {<<UNDEF, UNDEF>>, <<"2026-03-08", UNDEF>>, <<"2026-03-08", "x">>,
   <<"TBD", UNDEF>>, <<" ", UNDEF>>}

ExtractRows ==
  {[c \in {"Date", "Cancel", "Date1", "Cancel1", "Program1",
           "Date" \o ToString(g[1]), "Cancel" \o ToString(g[1]),
           "Date" \o ToString(g[2]), "Cancel" \o ToString(g[2])} |->
      IF c = "Date" THEN d0 ELSE IF c = "Cancel" THEN c0
      ELSE IF c = "Date1" THEN d1 ELSE IF c = "Cancel1" THEN c1
      ELSE IF c = "Program1" THEN " Robotics "
      ELSE IF c = "Date" \o ToString(g[1]) THEN x[1]
      ELSE IF c = "Cancel" \o ToString(g[1]) THEN x[2]
      ELSE IF c = "Date" \o ToString(g[2]) THEN y[1]
      ELSE y[2]] :
     d0 \in DateCells, c0 \in CancelCells, d1 \in DateCells, c1 \in CancelCells,
     g \in GroupPairs, x \in LaterCells, y \in LaterCells}

InitExtract ==
  /\ ServerIdle
  /\ ALLOW_LEGACY_SHA = FALSE
  /\ input \in ExtractRows
  /\ output = Pending

Extract ==
  /\ ~output.done
  /\ output' = [done |-> TRUE, value |-> extractActivities(input)]
  /\ UNCHANGED <<serverVars, input>>

SpecExtract == InitExtract /\ [][Extract]_vars

\* the date / cancellation cell of field group i; for group 1 the unsuffixed
\* column stands in when the suffixed one is missing or empty
DateOf(row, i)   == GroupField(row, "Date", i, UNDEF)
CancelOf(row, i) == GroupField(row, "Cancel", i, UNDEF)

\* C8: extractActivities returns exactly one activity for each field group
\* 1..16 whose date is present and whose cancellation is absent, none for any
\* other group, in increasing group order.
C8_ExtractExactly ==
  output.done =>
    LET acts == output.value.activities
        live == {i \in 1..NumGroups :
                   hasValue(DateOf(input, i)) /\ ~hasValue(CancelOf(input, i))}
    IN  /\ ~output.value.threw
        /\ {acts[k].meetingNumber : k \in 1..Len(acts)} = live
        /\ Len(acts) = Cardinality(live)
        /\ \A k \in 1..(Len(acts) - 1) : acts[k].meetingNumber < acts[k + 1].meetingNumber

-----------------------------------------------------------------------------
(* The program-rule loop of loadData on its own *)

MaxRuleRows == 2

RuleHeader == <<"Program", "Meeting", "Type", "Text">>

RuleRows ==
  {<<program, meeting, "Tip", "Bring kits">> :
     program \in {" Robotics ", "chess", "Constructor", NULL},
     meeting \in {"1", " 2 ", "abc", NULL, "0", "-1", "1.5"}}

RuleTables ==
  UNION {{<<RuleHeader>> \o t : t \in [1..n -> RuleRows]} : n \in 0..MaxRuleRows}

InitRules ==
  /\ ServerIdle
  /\ ALLOW_LEGACY_SHA = FALSE
  /\ input \in RuleTables
  /\ output = Pending

\* a reload whose other two files parse
LoadRules ==
  /\ ~output.done
  /\ output' = [done |-> TRUE,
                value |-> loadData(EmptyStore,
                                   [AllReturned(SheetA) EXCEPT
                                      !.programRules = Returned(input)])]
  /\ UNCHANGED <<serverVars, input>>

SpecRules == InitRules /\ [][LoadRules]_vars

ProgramKeyOf(row) == normalizeProgramName(Cell(row, 0))
IsNumeric(row)    == Number(Cell(row, 1)).key # "NaN"
WellFormed(row)   == ProgramKeyOf(row) # "" /\ IsNumeric(row)

\* C9: when the rule table has rows whose meeting number is not numeric, the
\* reload succeeds, the rule set has an entry for every well-formed row, and
\* every entry of the rule set comes from a well-formed row.
C9_MalformedRowsSkipped ==
  (output.done /\ \E i \in 2..Len(input) : ~IsNumeric(input[i])) =>
    LET rules == output.value.dataStore.programRules
    IN  /\ ~output.value.threw
        /\ \A i \in 2..Len(input) :
             WellFormed(input[i]) =>
               /\ ProgramKeyOf(input[i]) \in DOMAIN rules
               /\ Number(Cell(input[i], 1)).key \in DOMAIN rules[ProgramKeyOf(input[i])]
        /\ \A p \in DOMAIN rules : \A m \in DOMAIN rules[p] :
             \E i \in 2..Len(input) :
               /\ WellFormed(input[i])
               /\ ProgramKeyOf(input[i]) = p
               /\ Number(Cell(input[i], 1)).key = m

-----------------------------------------------------------------------------
(* Routing and start-up *)

\* the endpoints of the interface: method and path
IsListed(req) ==
  \/ req.method = "POST" /\ req.url \in {"/api/login", "/api/logout"}
  \/ req.method = "GET" /\ req.url = "/api/me/schedule"
  \/ req.method = "GET" /\ req.url \in DOMAIN routes
  \/ req.method = "GET" /\ req.url \in ForbiddenPaths

\* C11: a request whose method and path are not one of the listed endpoints
\* is answered 404 plain text, a listed path under another method included
C11_UnlistedIs404 ==
  [][(RequestStep /\ ~IsListed(resp'.req))
     => resp'.status = 404 /\ resp'.payload.text = "Not found"]_vars

\* C12: the server listens only as the outcome of a bootstrap whose initial
\* load succeeded and took effect; a bootstrap that found a file missing or
\* whose load failed is final, and only a listening server handles a request
C12_ListenAfterLoad ==
  [][/\ (phase = "boot" /\ phase' = "listening")
          => /\ load'.files \in DOMAIN ParsedFiles
             /\ ~load'.threw
             /\ dataStore' = loadData(dataStore, ParsedFiles[load'.files]).dataStore
     /\ (phase # "boot" => phase' = phase)
     /\ (phase \in {"missing", "failed"} => UNCHANGED vars)
     /\ (RequestStep \/ ticks' # ticks \/ load' # load) /\ phase # "boot"
          => phase = "listening"]_vars

\* the server came up and answered a request
C12_Witness ==
  /\ phase = "listening"
  /\ reqNo > 0
  /\ load.files = "A"

\* a start-up that a failing initial load ended
C12_WitnessFailed == phase = "failed" /\ load.threw /\ reqNo = 0

-----------------------------------------------------------------------------
(* Exceptions inside the handler *)

\* the handling of req raises an exception in the current state: JSON.parse or
\* the read of body.employeeId throws, verifyPassword throws on the record it
\* is given, or extractActivities throws on the session's record
Raises(req) ==
  \/ /\ IsLoginRequest(req)
     /\ \/ req.body.kind \in {"invalid", "null"}
        \/ LET employeeId == cleanValue(req.body.employeeId)
               code       == cleanValue(req.body.code)
               k          == FindRow(dataStore.instructors, employeeId)
           IN  /\ employeeId # "" /\ code # "" /\ k # 0
               /\ verifyPassword(dataStore.instructors[k], code) = "throw"
  \/ /\ IsScheduleRequest(req)
     /\ LET got == getSession(req)
            k   == FindRow(dataStore.instructors, got.session.employeeId)
        IN  got.found /\ k # 0 /\ extractActivities(dataStore.instructors[k]).threw

\* C13: a request whose handling raises an exception is answered 500 with the
\* JSON error body and leaves the session store and the snapshot as they were
C13_ExceptionIs500 ==
  [][(RequestStep /\ Raises(resp'.req))
     => /\ resp'.status = 500
        /\ resp'.payload = [NoPayload EXCEPT !.error = "Server error"]
        /\ sessions' = sessions
        /\ nextToken' = nextToken
        /\ dataStore' = dataStore]_vars

\* extractActivities threw under a live session, which is still in the store
C13_Witness ==
  /\ IsScheduleRequest(resp.req)
  /\ resp.status = 500
  /\ \E t \in DOMAIN sessions : resp.req.authorization = "Bearer " \o t

-----------------------------------------------------------------------------
(* The instructor map of loadData on its own *)

MaxInstructorRows == 2

\* the credential columns of a row (PasswordHash, ScryptHash, Code): none; a
\* strong hash, alone and beside a Code; a blank PasswordHash beside a
\* ScryptHash and a Code; a ScryptHash beside a legacy digest; a plaintext
\* Code alone; a legacy digest alone
CredentialCells ==
  {<<UNDEF, UNDEF, UNDEF>>,
   <<scryptHex("abc123", "s1"), UNDEF, UNDEF>>,
   <<scryptHex("abc123", "s1"), UNDEF, "abc123">>,
   <<" ", scryptHex("abc123", "s1"), "abc123">>,
   <<UNDEF, scryptHex("abc123", "s1"), sha256Hex("s1abc123")>>,
   <<UNDEF, UNDEF, "abc123">>,
   <<UNDEF, UNDEF, sha256Hex("s1abc123")>>}

\* instructor rows: every id and salt with every choice of credential columns
InstructorRows ==
  {[EmployeeID |-> id, Employee |-> "Dana", Salt |-> salt, PasswordHash |-> c[1],
    ScryptHash |-> c[2], Code |-> c[3]] :
     id \in {"1001", " 1001 ", NULL},
     salt \in {UNDEF, " s1 "},
     c \in CredentialCells}

InstructorSheets ==
  UNION {[1..n -> InstructorRows] : n \in 0..MaxInstructorRows}

InitInstructors ==
  /\ ServerIdle
  /\ ALLOW_LEGACY_SHA \in BOOLEAN
  /\ input \in InstructorSheets
  /\ output = Pending

\* a reload whose other two files parse
LoadInstructors ==
  /\ ~output.done
  /\ output' = [done |-> TRUE,
                value |-> loadData(EmptyStore,
                                   [AllReturned(SheetA) EXCEPT
                                      !.instructor = Returned(input)])]
  /\ UNCHANGED <<serverVars, input>>

SpecInstructors == InitInstructors /\ [][LoadInstructors]_vars

\* the employee id of a record, as the lookups read it
IdOf(row) == cleanValue(Get(row, "EmployeeID"))

\* C14: a snapshot produced by a reload has exactly one instructor record per
\* trimmed, non-empty employee id
C14_OneRecordPerId ==
  (output.done /\ ~output.value.threw) =>
    LET recs == output.value.dataStore.instructors
    IN  \A i, j \in 1..Len(recs) :
          (IdOf(recs[i]) # "" /\ IdOf(recs[i]) = IdOf(recs[j])) => i = j

\* the current-scheme hash of a row, as loadData and verifyPassword read it
StrongOf(row) == cleanValue(JsOr(Get(row, "PasswordHash"), Get(row, "ScryptHash")))

\* the salt the specification prescribes for a row
SaltFor(row) ==
  IF cleanValue(Get(row, "Salt")) # "" THEN cleanValue(Get(row, "Salt"))
  ELSE IF IdOf(row) # "" THEN "emp-" \o IdOf(row)
  ELSE "default-salt"

\* C17: after a successful reload every record has a non-empty salt (explicit,
\* else derived from the employee id, else the default); a record whose row
\* had a current-scheme hash keeps that hash; a record whose row had none but
\* had a non-empty Code carries the strong hash of that Code and no Code
C17_NormalizedCredentials ==
  (output.done /\ ~output.value.threw) =>
    LET recs == output.value.dataStore.instructors
    IN  /\ Len(recs) = Len(input)
        /\ \A i \in 1..Len(recs) :
             LET row == input[i]
                 rec == recs[i]
             IN  /\ Get(rec, "Salt") = SaltFor(row)
                 /\ Get(rec, "Salt") # ""
                 /\ StrongOf(row) # ""
                      => /\ Get(rec, "PasswordHash") = StrongOf(row)
                         /\ Get(rec, "Code") = Get(row, "Code")
                 /\ (StrongOf(row) = "" /\ cleanValue(Get(row, "Code")) # "")
                      => /\ Get(rec, "PasswordHash")
                              = scryptHex(cleanValue(Get(row, "Code")), SaltFor(row))
                         /\ "Code" \notin DOMAIN rec

\* a row without salt and hash whose Code was replaced by its strong hash
\* under the salt derived from the employee id
C17_Witness ==
  /\ output.done
  /\ \E i \in 1..Len(input) :
       /\ StrongOf(input[i]) = ""
       /\ Get(input[i], "Salt") = UNDEF
       /\ Get(input[i], "Code") = "abc123"
       /\ Get(output.value.dataStore.instructors[i], "PasswordHash")
            = scryptHex("abc123", "emp-1001")

\* the branch of verifyPassword that decides for a record: the strong-hash
\* branch, the salted-legacy branch, the unsalted-legacy branch, or none
DecidingBranch(row) ==
  LET scryptHash == cleanValue(JsOr(Get(row, "PasswordHash"), Get(row, "ScryptHash")))
      salt       == cleanValue(Get(row, "Salt"))
  IN  IF scryptHash # "" /\ salt # "" THEN "strong"
      ELSE IF salt # "" /\ cleanValue(Get(row, "Code")) # "" THEN "salted-legacy"
      ELSE IF ALLOW_LEGACY_SHA /\ cleanValue(Get(row, "Code")) # "" THEN "unsalted-legacy"
      ELSE "none"

\* the codes a login may submit
SubmittedCodes == {"abc123", "wrong", sha256Hex("s1abc123")}

\* C19: for every record of a snapshot produced by loadData, verifyPassword is
\* decided by the strong-hash branch or rejects; neither legacy branch
\* decides, whatever the row contained and whatever the flag is
C19_NoLegacyBranch ==
  (output.done /\ ~output.value.threw) =>
    LET recs == output.value.dataStore.instructors
    IN  \A i \in 1..Len(recs) :
          /\ DecidingBranch(recs[i]) \in {"strong", "none"}
          /\ DecidingBranch(recs[i]) = "none"
               => \A code \in SubmittedCodes : verifyPassword(recs[i], code) = "reject"
          /\ \A code \in SubmittedCodes :
               verifyPassword(recs[i], code) = "accept"
                 => Get(recs[i], "PasswordHash") = scryptHex(code, Get(recs[i], "Salt"))

\* with the flag on, a row that carried a salt and a legacy digest in Code and
\* no strong hash was loaded, and its record is decided by the strong branch
C19_Witness ==
  /\ output.done
  /\ ALLOW_LEGACY_SHA
  /\ \E i \in 1..Len(input) :
       /\ StrongOf(input[i]) = ""
       /\ cleanValue(Get(input[i], "Salt")) = "s1"
       /\ Get(input[i], "Code") = sha256Hex("s1abc123")
       /\ DecidingBranch(output.value.dataStore.instructors[i]) = "strong"
       /\ verifyPassword(output.value.dataStore.instructors[i],
                         sha256Hex("s1abc123")) = "accept"

-----------------------------------------------------------------------------
(* Meeting-number keys *)

\* the property key is the decimal form of a positive integer
IsPositiveIntegerKey(m) == m # "" /\ AllDigits(m) /\ DecimalValue(m) > 0

\* C16: in a snapshot produced by a reload every meeting-number key of every
\* program's rule mapping is a positive integer; rows whose second column is
\* empty, zero, negative, fractional or non-numeric contribute no entry
C16_PositiveIntegerKeys ==
  (output.done /\ ~output.value.threw) =>
    LET rules == output.value.dataStore.programRules
    IN  \A p \in DOMAIN rules : \A m \in DOMAIN rules[p] : IsPositiveIntegerKey(m)

-----------------------------------------------------------------------------
(* Frame of the session store *)

\* the request presents a stored token that getSession finds expired
PresentsExpired(req, t) ==
  /\ Presents(req, t)
  /\ t \in DOMAIN sessions
  /\ sessions[t].expiresAt < now

C18_WitnessExpired ==
  /\ IsScheduleRequest(resp.req)
  /\ resp.status = 401
  /\ nextToken = 1
  /\ resp.req.authorization = "Bearer " \o Token(1)
  /\ sessions = EmptyObject
  /\ loggedOut = {}

-----------------------------------------------------------------------------
(* The handler with its await: the login handler waits for the request body
   at await parseJsonBody(req); the timer and other requests run meanwhile.
   The schedule, logout and static handlers and loadData itself contain no
   await (parseXlsx is spawnSync), so each runs to completion in one step. *)

MAX_BODY == 1000000      \* data.length > 1e6 destroys the request stream
MaxChunk == 500000       \* characters delivered by one 'data' event
MaxAsyncRequests == 3    \* requests answered

\* body lengths: none, short, the limit, one character over the limit
BodySizes == {0, 40, MAX_BODY, MAX_BODY + 1}

AsyncLogins ==
  {[method |-> "POST", url |-> "/api/login", authorization |-> UNDEF,
    body |-> b, fileExists |-> FALSE] :
     b \in {JsonObject(" 1001", "abc123"), JsonObject("1004", "pw2"),
            [NoBody EXCEPT !.kind = "invalid"], NoBody}}

SyncRequests ==
  {Req("GET", "/api/me/schedule", "Bearer " \o Token(n), FALSE) : n \in 1..MaxTokens}

\* the request callback starts a login: parseJsonBody registers its listeners
\* and the handler waits
Accept ==
  /\ phase = "listening"
  /\ inflight.stage = "idle"
  /\ reqNo < MaxAsyncRequests
  /\ nextToken < MaxTokens
  /\ \E req \in AsyncLogins, size \in BodySizes :
       /\ (req.body.kind = "empty") <=> (size = 0)
       /\ inflight' = [stage |-> "body", req |-> req, size |-> size, data |-> 0,
                       sent |-> 0, seen |-> dataStore]
  /\ UNCHANGED <<phase, ALLOW_LEGACY_SHA, now, ticks, sessions, nextToken, dataStore,
                 reqNo, resp, loggedOut, load, input, output>>

\* req 'data': data += chunk; if(data.length > 1e6) req.destroy().  A
\* destroyed stream emits neither 'end' nor 'error'.
Data ==
  /\ inflight.stage = "body"
  /\ inflight.data < inflight.size
  /\ LET d == IF inflight.data + MaxChunk < inflight.size
              THEN inflight.data + MaxChunk ELSE inflight.size
     IN  inflight' = [inflight EXCEPT !.data = d,
                                      !.stage = IF d > MAX_BODY THEN "destroyed"
                                                ELSE "body"]
  /\ UNCHANGED <<phase, ALLOW_LEGACY_SHA, now, ticks, sessions, nextToken, dataStore,
                 reqNo, resp, loggedOut, load, input, output>>

\* req 'end': the promise settles and the login handler runs to its send call
End ==
  /\ inflight.stage = "body"
  /\ inflight.data = inflight.size
  /\ \E r \in {Login(inflight.req)} :
       /\ sessions' = r.sessions
       /\ nextToken' = nextToken + r.issued
       /\ resp' = [req |-> inflight.req, status |-> r.status, payload |-> r.payload]
  /\ reqNo' = reqNo + 1
  /\ inflight' = [inflight EXCEPT !.stage = "idle", !.sent = inflight.sent + 1]
  /\ UNCHANGED <<phase, ALLOW_LEGACY_SHA, now, ticks, dataStore, loggedOut, load,
                 input, output>>

\* a schedule request, handled to its response in one step
SyncRequest == RequestFrom(SyncRequests, MaxAsyncRequests)

NextAsync == Bootstrap \/ Reload \/ Accept \/ Data \/ End \/ SyncRequest

\* the whole body has arrived and the stream is intact: 'end' is due.  End is
\* enabled exactly in these states and is the only step that leaves them.
EndDue == inflight.stage = "body" /\ inflight.data = inflight.size

\* The event loop delivers the events of a request whose client sends its
\* body: every chunk arrives, and 'end' is not withheld for ever once it is
\* due (weak fairness of End, stated on the states in which End is enabled).
SpecAsync ==
  /\ InitDefault
  /\ [][NextAsync]_vars
  /\ WF_vars(Data)
  /\ []<>~EndDue

\* the snapshots a complete, successful loadData produces
ProducedSnapshots ==
  {loadData(EmptyStore, ParsedFiles[n]).dataStore :
     n \in {m \in DOMAIN ParsedFiles : ~loadData(EmptyStore, ParsedFiles[m]).threw}}

\* the response to a schedule request of session is read from snapshot S
ScheduleReadFrom(S, session, status, payload) ==
  LET k == FindRow(S.instructors, session.employeeId)
  IN  CASE status = 404 -> k = 0
        [] status = 500 -> k # 0 /\ extractActivities(S.instructors[k]).threw
        [] status = 200 ->
             /\ k # 0
             /\ payload.employeeName = cleanValue(Get(S.instructors[k], "Employee"))
             /\ payload.activities = extractActivities(S.instructors[k]).activities
             /\ payload.programRules = S.programRules
             /\ payload.globalMessages = S.globalMessages
        [] OTHER -> TRUE

\* the response to a login with a JSON-object body is read from snapshot S
LoginReadFrom(S, body, status, payload) ==
  LET employeeId == cleanValue(body.employeeId)
      code       == cleanValue(body.code)
      k          == FindRow(S.instructors, employeeId)
  IN  CASE status = 401 -> k = 0 \/ verifyPassword(S.instructors[k], code) = "reject"
        [] status = 200 ->
             /\ k # 0
             /\ verifyPassword(S.instructors[k], code) = "accept"
             /\ payload.employeeName = cleanValue(Get(S.instructors[k], "Employee"))
        [] OTHER -> TRUE

\* C15: a request that overlaps a snapshot swap reads all of its data from one
\* snapshot, the one active when it was accepted or the one active when it is
\* answered, and that snapshot is one a reload produced
C15_OneSnapshot ==
  [][RequestStep =>
       LET req  == resp'.req
           pre  == IF IsLoginRequest(req) THEN inflight.seen ELSE dataStore
           post == dataStore
       IN  \E S \in {pre, post} :
             /\ S \in ProducedSnapshots
             /\ IsScheduleRequest(req) /\ resp'.status # 401
                  => \E t \in DOMAIN sessions :
                       /\ Presents(req, t)
                       /\ ScheduleReadFrom(S, sessions[t], resp'.status, resp'.payload)
             /\ IsLoginRequest(req) /\ req.body.kind = "object"
                  => LoginReadFrom(S, req.body, resp'.status, resp'.payload)]_vars

\* a login accepted under the first snapshot was answered after the swap,
\* from the second snapshot, in which its employee is unknown
C15_Witness ==
  /\ inflight.stage = "idle"
  /\ inflight.req.body = JsonObject(" 1001", "abc123")
  /\ resp.req = inflight.req
  /\ resp.status = 401
  /\ FindRow(inflight.seen.instructors, "1001") # 0
  /\ FindRow(dataStore.instructors, "1001") = 0

\* a schedule request was answered 200 while a login was waiting for its body
\* and the snapshot had been swapped since that login was accepted
C15_WitnessSchedule ==
  /\ IsScheduleRequest(resp.req)
  /\ resp.status = 200
  /\ inflight.stage = "body"
  /\ inflight.seen # dataStore

\* C20: every accepted request eventually receives exactly one response, a
\* login whose body is empty, malformed or over the limit included
C20_EventuallyAnswered ==
  /\ (inflight.stage # "idle") ~> (inflight.stage = "idle" /\ inflight.sent = 1)
  /\ [](inflight.sent <= 1)

====
